---- MODULE Spec2Model ----
(***************************************************************************)
(* The event collector of src/app.py and src/models.py as a state machine. *)
(*                                                                         *)
(* State: the two tables of the database (clients, events), the one        *)
(* analytics_summary request that is between two of its queries, and the   *)
(* response that is being sent, together with the request it answers.      *)
(*                                                                         *)
(* Every request runs the before_request hook authenticate and then its    *)
(* route handler.  A handler that reads or writes the database in one      *)
(* statement is one action; analytics_summary issues four statements and   *)
(* is one action per statement, so that other requests commit in between.  *)
(***************************************************************************)
EXTENDS Integers, Sequences, FiniteSets, TLC

VARIABLES clients, events, summary, resp

vars == <<clients, events, summary, resp>>

(***************************************************************************)
(* Bounds of the model.                                                    *)
(***************************************************************************)
\* Rows the clients table may hold before register_client is no longer explored.
MaxClients == 2
\* Event rows that may be ingested on top of the rows the database starts with.
MaxEvents == 2

(***************************************************************************)
(* Constants of the program.                                               *)
(***************************************************************************)
\* recent_events: .limit(50)
RecentLimit == 50
\* error_analytics: .limit(100)
ErrorLimit == 100
\* error_analytics: errors[:10]
ErrorShown == 10

(***************************************************************************)
(* JSON values as Python sees them after request.get_json().  Every value  *)
(* is a record whose one field names its type, so that values of different *)
(* types are unequal rather than incomparable.                             *)
(***************************************************************************)
\* Python None, JSON null.
None == [null |-> TRUE]
JStr(s) == [str |-> s]
\* A JSON string holding an ISO-8601 date-time: the instant t and the
\* suffix that writes its UTC offset ("Z" or "+00:00").
JIso(t, tz) == [iso |-> t, tz |-> tz]
JNum(n) == [num |-> n]
\* A JSON array, by its length.
JArr(n) == [arr |-> n]
\* A JSON object: o is a record, DOMAIN o its keys.
JObj(o) == [obj |-> o]
\* The object {} : (data or {}), .get(key, {}).
EmptyObj == [obj |-> [k \in {} |-> None]]

IsDict(v) == "obj" \in DOMAIN v
IsStr(v) == "str" \in DOMAIN v \/ "iso" \in DOMAIN v

\* bool(v) in Python: None, "", 0, [] and {} are falsy.
Truthy(v) ==
    IF "null" \in DOMAIN v THEN FALSE
    ELSE IF "str" \in DOMAIN v THEN v.str # ""
    ELSE IF "num" \in DOMAIN v THEN v.num # 0
    ELSE IF "arr" \in DOMAIN v THEN v.arr # 0
    ELSE IF "obj" \in DOMAIN v THEN DOMAIN v.obj # {}
    ELSE TRUE

\* The exception a Python expression raised instead of yielding a value.
Raised(e) == [raised |-> e]
IsRaised(v) == "raised" \in DOMAIN v

\* key in v.  A dict looks at its keys, a list at its elements (the arrays
\* of this model hold no strings) and "" has no substring but ""; None and a
\* number raise TypeError.
InRaises(v) == ~IsDict(v) /\ ("null" \in DOMAIN v \/ "num" \in DOMAIN v)
In(key, v) == IsDict(v) /\ key \in DOMAIN v.obj

\* v[key].  KeyError on a dict without the key, TypeError on a non-dict.
Item(v, key) ==
    IF IsRaised(v) THEN v
    ELSE IF ~IsDict(v) THEN Raised("TypeError")
    ELSE IF key \in DOMAIN v.obj THEN v.obj[key]
    ELSE Raised("KeyError")

\* v.get(key, default).  AttributeError when v is not a dict.
GetDefault(v, key, default) ==
    IF IsRaised(v) THEN v
    ELSE IF ~IsDict(v) THEN Raised("AttributeError")
    ELSE IF key \in DOMAIN v.obj THEN v.obj[key]
    ELSE default

\* v.get(key)
Get(v, key) == GetDefault(v, key, None)

(***************************************************************************)
(* Requests.                                                               *)
(***************************************************************************)
\* A request without a JSON body (no body, or a Content-Type that is not JSON).
NoBody == [nobody |-> TRUE]

\* header is the value of X-API-Key, "" when the header is not sent.
Request(path, header, body) == [path |-> path, header |-> header, body |-> body]

\* request.get_json(silent=True): None when there is no JSON body.
GetJsonSilent(req) == IF req.body = NoBody THEN None ELSE req.body

\* request.headers.get('X-API-Key')
HeaderGet(req) == IF req.header = "" THEN None ELSE JStr(req.header)

AllowList == {"/health", "/api/register", "/", "/metrics"}

(***************************************************************************)
(* The tables.  A row's id is its position in the sequence.                *)
(***************************************************************************)
\* secrets.token_urlsafe(32) draws from a space this large.
KeySpace == {"sk_1", "sk_2"}

\* Client(api_key, name): is_active takes the column default.
Client(id, api_key, name) ==
    [id |-> id, api_key |-> api_key, name |-> name, is_active |-> TRUE]

\* The unique constraint of clients.api_key.
NoUniqueKey(cl, api_key) == TRUE
UniqueKey(cl, api_key) == \A i \in 1..Len(cl) : cl[i].api_key # api_key

\* Client.query.filter_by(api_key=api_key, is_active=True).first():
\* the row, or None.
FilterByKey(cl, api_key) ==
    LET hit == {i \in 1..Len(cl) :
                    JStr(cl[i].api_key) = api_key /\ cl[i].is_active}
    IN  IF hit = {} THEN None ELSE cl[CHOOSE i \in hit : \A j \in hit : i <= j]

(***************************************************************************)
(* Responses.  client is g.client.id (0 when authenticate set none) and    *)
(* rows are the ids of the rows the handler's limited query returned: both *)
(* are recorded beside the response, the caller does not see them.         *)
(***************************************************************************)
NoRequest == Request("", "", NoBody)
NoResponse ==
    [req |-> NoRequest, status |-> 0, body |-> None, client |-> 0, rows |-> <<>>]

Response(req, status, body, client, rows) ==
    [req |-> req, status |-> status, body |-> body, client |-> client, rows |-> rows]

ErrorBody(msg) == [error |-> msg]
\* Flask's answer to an exception no handler caught.
ServerError(req, client) ==
    Response(req, 500, [html |-> "Internal Server Error"], client, <<>>)

(***************************************************************************)
(* authenticate, the before_request hook.                                  *)
(* The result is a response (the request ends here) or the client it put   *)
(* in g.client (None on a path of the allow-list).                         *)
(***************************************************************************)
CandidateKey(req, data) ==
    LET api_key == Get(data, "api_key")
    IN  IF IsRaised(api_key) THEN api_key
        ELSE IF ~Truthy(api_key) THEN HeaderGet(req)
        ELSE api_key

Authenticate(cl, req) ==
    IF req.path \in AllowList THEN [passed |-> TRUE, client |-> None]
    ELSE
        LET parsed == GetJsonSilent(req)
            data == IF Truthy(parsed) THEN parsed ELSE EmptyObj
            api_key == CandidateKey(req, data)
        IN  IF IsRaised(api_key)
            THEN [passed |-> FALSE, response |-> ServerError(req, 0)]
            ELSE IF ~Truthy(api_key)
            THEN [passed |-> FALSE,
                  response |-> Response(req, 401, ErrorBody("Missing api_key"), 0, <<>>)]
            ELSE LET client == FilterByKey(cl, api_key)
                 IN  IF client = None
                     THEN [passed |-> FALSE,
                           response |-> Response(req, 401, ErrorBody("Invalid API key"), 0, <<>>)]
                     ELSE [passed |-> TRUE, client |-> client]

(***************************************************************************)
(* request.get_json() in a route handler, not silent.  For a request       *)
(* without a JSON body the installed Flask decides: before 2.1 it returns  *)
(* None, 2.1 and 2.2 abort with 400, later versions abort with 415.  The   *)
(* repository pins no version, so all three are outcomes of the build.     *)
(***************************************************************************)
GetJsonModes == {"none", "400", "415"}
\* The versions that differ on this request.
ModesFor(req) == IF req.body = NoBody THEN GetJsonModes ELSE {"none"}

Aborts(req, mode) == req.body = NoBody /\ mode # "none"
Abort(req, mode, client) ==
    Response(req, IF mode = "400" THEN 400 ELSE 415,
             [html |-> "get_json"], client, <<>>)
GetJson(req) == IF req.body = NoBody THEN None ELSE req.body

(***************************************************************************)
(* register_client.  key is what generate_api_key() returned.  The result  *)
(* is the clients table after the request and the response.                *)
(***************************************************************************)
\* not data or 'name' not in data
NameMissing(data) == ~Truthy(data) \/ ~In("name", data)

RegisterClient(cl, req, key, mode) ==
    IF Aborts(req, mode) THEN [clients |-> cl, response |-> Abort(req, mode, 0)]
    ELSE
        LET data == GetJson(req)
        IN  IF Truthy(data) /\ InRaises(data)
            THEN [clients |-> cl, response |-> ServerError(req, 0)]
            ELSE IF NameMissing(data)
            THEN [clients |-> cl,
                  response |-> Response(req, 400, ErrorBody("Client name required"), 0, <<>>)]
            ELSE IF ~UniqueKey(cl, key)
            \* db.session.commit() raises IntegrityError, which nothing catches.
            THEN [clients |-> cl, response |-> ServerError(req, 0)]
            ELSE [clients |-> Append(cl, Client(Len(cl) + 1, key, Item(data, "name"))),
                  response |-> Response(req, 201,
                                        [success |-> TRUE, api_key |-> key,
                                         message |-> "Save this API key"], 0, <<>>)]

(***************************************************************************)
(* The Event table's queries.                                              *)
(***************************************************************************)
Min(a, b) == IF a <= b THEN a ELSE b
Reverse(s) == [i \in 1..Len(s) |-> s[Len(s) + 1 - i]]
\* .limit(n), [:n]
TakeAll(s, n) == s
Take(s, n) == SubSeq(s, 1, Min(n, Len(s)))

\* Event.query.filter_by(client_id=client_id): the tenant's rows, by id.
AllRows(ev, client_id) == ev
OfClient(ev, client_id) == SelectSeq(ev, LAMBDA e : e.client_id = client_id)

\* ... .filter_by(client_id=client_id, event_type='error')
ErrorsOfClient(ev, client_id) ==
    SelectSeq(ev, LAMBDA e : e.client_id = client_id /\ e.event_type = JStr("error"))

\* .order_by(Event.sent_at.desc()).  SQL leaves the order of rows with equal
\* sent_at open: tie says whether the store returns them by id ascending or
\* descending.
TieOrders == {"asc", "desc"}
RECURSIVE DescBuckets(_, _, _)
DescBuckets(rows, times, tie) ==
    IF times = {} THEN <<>>
    ELSE LET t == CHOOSE x \in times : \A y \in times : y <= x
             bucket == SelectSeq(rows, LAMBDA e : e.sent_at = t)
         IN  (IF tie = "asc" THEN bucket ELSE Reverse(bucket))
                 \o DescBuckets(rows, times \ {t}, tie)
OrderBySentAtDesc(rows, tie) ==
    DescBuckets(rows, {rows[i].sent_at : i \in 1..Len(rows)}, tie)

Ids(rows) == [i \in 1..Len(rows) |-> rows[i].id]

\* Event.query.filter_by(client_id=client_id).count()
CountEvents(ev, client_id) == Len(OfClient(ev, client_id))

\* query(Event.event_type, func.count(Event.id)).filter_by(...)
\*     .group_by(Event.event_type).all(), as dict(by_type)
CountByType(ev, client_id) ==
    LET rows == OfClient(ev, client_id)
        types == {rows[i].event_type.str : i \in 1..Len(rows)}
    IN  [t \in types |-> Len(SelectSeq(rows, LAMBDA e : e.event_type.str = t))]

\* query(func.count(func.distinct(Event.visitor_id))).filter_by(...).scalar() or 0
CountVisitors(ev, client_id) ==
    LET rows == OfClient(ev, client_id)
    IN  Cardinality({rows[i].visitor_id : i \in 1..Len(rows)})

\* Event.query.filter_by(...).order_by(Event.sent_at.asc()).first().sent_at
FirstSentAt(ev, client_id) ==
    LET rows == OfClient(ev, client_id)
        times == {rows[i].sent_at : i \in 1..Len(rows)}
    IN  IF times = {} THEN Raised("AttributeError")
        ELSE JIso(CHOOSE x \in times : \A y \in times : x <= y, "")

(***************************************************************************)
(* track_event.                                                            *)
(***************************************************************************)
Required == <<"event_type", "sent_at", "identifiers", "page_info">>

\* s.replace('Z', '+00:00'): AttributeError when s is not a string.
Replace(s) ==
    IF IsRaised(s) THEN s
    ELSE IF ~IsStr(s) THEN Raised("AttributeError")
    ELSE IF "iso" \in DOMAIN s /\ s.tz = "Z" THEN JIso(s.iso, "+00:00")
    ELSE s

\* datetime.fromisoformat(s): the instant, as [dt |-> t].  It takes a numeric
\* offset and, before Python 3.11, no "Z".
FromIsoFormat(s) ==
    IF IsRaised(s) THEN s
    ELSE IF "iso" \in DOMAIN s /\ s.tz # "Z" THEN [dt |-> s.iso]
    ELSE Raised("ValueError")

\* Event(client_id=..., ..., raw_data=data): the row, or the exception one of
\* the argument expressions raised.  page_title, referrer and received_at are
\* never assigned and are left out.
Event(id, client_id, data) ==
    LET visitor_id == Item(Item(data, "identifiers"), "visitor_id")
        session_id == Item(Item(data, "identifiers"), "session_id")
        page_url == Item(Item(data, "page_info"), "url")
        event_type == Item(data, "event_type")
        sdk_version == Get(data, "sdk_version")
        sent_at == FromIsoFormat(Replace(Item(data, "sent_at")))
        args == <<visitor_id, session_id, page_url, event_type, sdk_version, sent_at>>
        bad == {i \in 1..Len(args) : IsRaised(args[i])}
    IN  IF bad # {} THEN args[CHOOSE i \in bad : \A j \in bad : i <= j]
        ELSE [id |-> id, client_id |-> client_id, visitor_id |-> visitor_id,
              session_id |-> session_id, page_url |-> page_url,
              event_type |-> event_type, sdk_version |-> sdk_version,
              sent_at |-> sent_at.dt, raw_data |-> data]

\* The columns declared nullable=False.
NotNull(e) ==
    /\ e.visitor_id # None
    /\ e.session_id # None
    /\ e.page_url # None
    /\ e.event_type # None
    /\ e.raw_data # None

\* db.session.commit() of the rows added to the session, and
\* db.session.rollback(), which discards them.
CommitTwice(ev, pending) == ev \o pending \o pending
Commit(ev, pending) == ev \o pending
RollbackKeepsRows(ev, pending) == ev \o pending
Rollback(ev, pending) == ev

FirstMissing(data) ==
    LET miss == {i \in 1..Len(Required) : ~In(Required[i], data)}
    IN  IF miss = {} THEN "" ELSE Required[CHOOSE i \in miss : \A j \in miss : i <= j]

\* The handler body after authenticate set g.client.  db_ok says whether the
\* store accepts the commit (a lost connection refuses it).
TrackEvent(ev, req, client, mode, db_ok) ==
    IF Aborts(req, mode)
    THEN [events |-> ev, response |-> Abort(req, mode, client.id)]
    ELSE
        LET data == GetJson(req)
            event == Event(Len(ev) + 1, client.id, data)
            failed == Response(req, 500, ErrorBody("Failed to process event"),
                               client.id, <<>>)
        IN  IF InRaises(data)
            \* 'event_type' not in data raises TypeError outside the try.
            THEN [events |-> ev, response |-> ServerError(req, client.id)]
            ELSE IF FirstMissing(data) # ""
            THEN [events |-> ev,
                  response |-> Response(req, 400,
                                        [error |-> "Missing", field |-> FirstMissing(data)],
                                        client.id, <<>>)]
            ELSE IF IsRaised(event)
            THEN [events |-> Rollback(ev, <<>>), response |-> failed]
            ELSE IF ~NotNull(event) \/ ~db_ok
            THEN [events |-> Rollback(ev, <<event>>), response |-> failed]
            ELSE [events |-> Commit(ev, <<event>>),
                  response |-> Response(req, 201,
                                        [success |-> TRUE, event_id |-> event.id],
                                        client.id, <<>>)]

(***************************************************************************)
(* recent_events.                                                          *)
(***************************************************************************)
\* e.raw_data.get(outer, {}).get(inner) if e.event_type == type else None
Detail(e, type, outer, inner) ==
    IF e.event_type = JStr(type)
    THEN Get(GetDefault(e.raw_data, outer, EmptyObj), inner)
    ELSE None

EventView(e) ==
    LET error == Detail(e, "error", "error_info", "message")
        click == Detail(e, "click", "click_info", "element")
        load_time == Detail(e, "page_view", "performance", "load_time")
    IN  IF IsRaised(error) THEN error
        ELSE IF IsRaised(click) THEN click
        ELSE IF IsRaised(load_time) THEN load_time
        ELSE [id |-> e.id, type |-> e.event_type, visitor |-> e.visitor_id,
              page |-> e.page_url, time |-> JIso(e.sent_at, ""),
              details |-> [error |-> error, click |-> click, load_time |-> load_time]]

RecentEvents(ev, req, client, tie) ==
    LET rows == Take(OrderBySentAtDesc(OfClient(ev, client.id), tie), RecentLimit)
        views == [i \in 1..Len(rows) |-> EventView(rows[i])]
    IN  IF \E i \in 1..Len(rows) : IsRaised(views[i])
        THEN ServerError(req, client.id)
        ELSE Response(req, 200, [list |-> views], client.id, Ids(rows))

(***************************************************************************)
(* error_analytics.                                                        *)
(***************************************************************************)
\* e.raw_data.get('error_info', {}).get('message', 'Unknown')
MessageOf(e) ==
    GetDefault(GetDefault(e.raw_data, "error_info", EmptyObj), "message", JStr("Unknown"))

\* The loop that fills error_counts, keyed by the message text.
ErrorCounts(rows) ==
    LET msgs == {MessageOf(rows[i]).str : i \in 1..Len(rows)}
    IN  [m \in msgs |-> Cardinality({i \in 1..Len(rows) : MessageOf(rows[i]).str = m})]

ErrorView(e) ==
    LET info == GetDefault(e.raw_data, "error_info", EmptyObj)
    IN  [message |-> Get(info, "message"), file |-> Get(info, "file"),
         line |-> Get(info, "line"), page |-> e.page_url,
         time |-> JIso(e.sent_at, "")]

ErrorAnalytics(ev, req, client, tie) ==
    LET errors == Take(OrderBySentAtDesc(ErrorsOfClient(ev, client.id), tie), ErrorLimit)
        shown == Take(errors, ErrorShown)
    IN  IF \E i \in 1..Len(errors) : IsRaised(MessageOf(errors[i]))
        THEN ServerError(req, client.id)
        ELSE Response(req, 200,
                      [total_errors |-> Len(errors),
                       recent_errors |-> [i \in 1..Len(shown) |-> ErrorView(shown[i])],
                       error_frequency |-> ErrorCounts(errors)],
                      client.id, Ids(errors))

(***************************************************************************)
(* analytics_summary: four statements, each on the rows committed when it  *)
(* runs (no isolation level is configured, so the store's default applies, *)
(* and under READ COMMITTED a statement sees every row committed before it *)
(* starts).  summary holds the handler's locals between two statements.    *)
(***************************************************************************)
Idle ==
    [pc |-> "idle", req |-> NoRequest, client |-> None, total |-> 0,
     by_type |-> [t \in {} |-> 0], unique_visitors |-> 0]

SummaryBody(client, total, by_type, unique_visitors, ev) ==
    [client |-> client.name, total_events |-> total, by_type |-> by_type,
     unique_visitors |-> unique_visitors,
     first_event |-> IF total > 0 THEN FirstSentAt(ev, client.id) ELSE None]

(***************************************************************************)
(* The actions: one request each, authenticate first.                      *)
(***************************************************************************)
\* resp holds the response that is being sent; the model looks at one
\* response at a time, and Send clears it.
Quiet == resp = NoResponse

Send ==
    /\ resp # NoResponse
    /\ resp' = NoResponse
    /\ UNCHANGED <<clients, events, summary>>

NewRows(ev) ==
    IF Len(ev) >= ErrorLimit - 1 THEN Len(ev) - (ErrorLimit - 1) ELSE Len(ev)

\* home, health, metrics: no authentication, no database access.
Public(req) ==
    /\ Quiet
    /\ req.path \in {"/", "/health", "/metrics"}
    /\ resp' = Response(req, 200, [text |-> req.path], 0, <<>>)
    /\ UNCHANGED <<clients, events, summary>>

\* A path no route matches: authenticate runs, then Flask answers 404.
Unrouted(req) ==
    /\ Quiet
    /\ req.path = "/api/unknown"
    /\ LET auth == Authenticate(clients, req)
       IN  resp' = IF auth.passed
                   THEN Response(req, 404, [html |-> "Not Found"], auth.client.id, <<>>)
                   ELSE auth.response
    /\ UNCHANGED <<clients, events, summary>>

Register(req) ==
    /\ Quiet
    /\ req.path = "/api/register"
    /\ \E key \in KeySpace, mode \in ModesFor(req) :
          LET out == RegisterClient(clients, req, key, mode)
          IN  /\ Len(out.clients) <= MaxClients
              /\ clients' = out.clients
              /\ resp' = out.response
    /\ UNCHANGED <<events, summary>>

Track(req) ==
    /\ Quiet
    /\ req.path = "/api/events"
    /\ LET auth == Authenticate(clients, req)
       IN  IF ~auth.passed
           THEN resp' = auth.response /\ UNCHANGED events
           ELSE \E mode \in ModesFor(req), db_ok \in BOOLEAN :
                   LET out == TrackEvent(events, req, auth.client, mode, db_ok)
                   IN  /\ NewRows(out.events) <= MaxEvents
                       /\ events' = out.events
                       /\ resp' = out.response
    /\ UNCHANGED <<clients, summary>>

Recent(req) ==
    /\ Quiet
    /\ req.path = "/api/analytics/recent"
    /\ LET auth == Authenticate(clients, req)
       IN  IF ~auth.passed
           THEN resp' = auth.response
           ELSE \E tie \in TieOrders :
                   resp' = RecentEvents(events, req, auth.client, tie)
    /\ UNCHANGED <<clients, events, summary>>

Errors(req) ==
    /\ Quiet
    /\ req.path = "/api/analytics/errors"
    /\ LET auth == Authenticate(clients, req)
       IN  IF ~auth.passed
           THEN resp' = auth.response
           ELSE \E tie \in TieOrders :
                   resp' = ErrorAnalytics(events, req, auth.client, tie)
    /\ UNCHANGED <<clients, events, summary>>

\* authenticate and the first statement: total
SummaryTotal(req) ==
    /\ Quiet
    /\ req.path = "/api/analytics/summary"
    /\ summary.pc = "idle"
    /\ LET auth == Authenticate(clients, req)
       IN  IF ~auth.passed
           THEN resp' = auth.response /\ UNCHANGED summary
           ELSE /\ summary' = [Idle EXCEPT !.pc = "by_type", !.req = req,
                                           !.client = auth.client,
                                           !.total = CountEvents(events, auth.client.id)]
                /\ UNCHANGED resp
    /\ UNCHANGED <<clients, events>>

\* the second statement: by_type
SummaryByType ==
    /\ Quiet
    /\ summary.pc = "by_type"
    /\ summary' = [summary EXCEPT !.pc = "unique_visitors",
                                  !.by_type = CountByType(events, summary.client.id)]
    /\ UNCHANGED <<clients, events, resp>>

\* the third statement: unique_visitors
SummaryVisitors ==
    /\ Quiet
    /\ summary.pc = "unique_visitors"
    /\ summary' = [summary EXCEPT !.pc = "first_event",
                                  !.unique_visitors = CountVisitors(events, summary.client.id)]
    /\ UNCHANGED <<clients, events, resp>>

\* the fourth statement, first_event, inside jsonify(...)
SummaryRespond ==
    /\ Quiet
    /\ summary.pc = "first_event"
    /\ resp' = Response(summary.req, 200,
                        SummaryBody(summary.client, summary.total, summary.by_type,
                                    summary.unique_visitors, events),
                        summary.client.id, <<>>)
    /\ summary' = Idle
    /\ UNCHANGED <<clients, events>>

(***************************************************************************)
(* The requests explored.                                                  *)
(***************************************************************************)
Merge(o, k, v) ==
    JObj([x \in DOMAIN o.obj \cup {k} |-> IF x = k THEN v ELSE o.obj[x]])
Without(o, k) == JObj([x \in DOMAIN o.obj \ {k} |-> o.obj[x]])

Identifiers(visitor) ==
    JObj([visitor_id |-> JStr(visitor), session_id |-> JStr("s1")])
Payload(type, sent_at, visitor) ==
    JObj([event_type |-> JStr(type), sent_at |-> sent_at,
          identifiers |-> Identifiers(visitor),
          page_info |-> JObj([url |-> JStr("https://x.test")])])
ErrorInfo(msg) == JObj([message |-> JStr(msg), file |-> JStr("a.js"), line |-> JNum(7)])

ClickV1 == Payload("click", JIso(1, "Z"), "v1")
ViewV2 == Payload("page_view", JIso(3, "+00:00"), "v2")
ErrorBoom == Merge(Payload("error", JIso(2, "Z"), "v1"), "error_info", ErrorInfo("boom"))
ErrorBare == Payload("error", JIso(3, "Z"), "v2")

\* Payloads with the four top-level fields that fail in the try block.
NoVisitor == Merge(ClickV1, "identifiers", JObj([session_id |-> JStr("s1")]))
NoSession == Merge(ClickV1, "identifiers", JObj([visitor_id |-> JStr("v1")]))
NoUrl == Merge(ClickV1, "page_info", JObj([title |-> JStr("x")]))
BadStamp == Merge(ClickV1, "sent_at", JStr("yesterday"))
NullVisitor ==
    Merge(ClickV1, "identifiers", JObj([visitor_id |-> None, session_id |-> JStr("s1")]))

\* An error event whose error_info is a string, not an object.
ErrorText == Merge(Payload("error", JIso(1, "Z"), "v1"), "error_info", JStr("x is undefined"))

FailingPayloads == {NoVisitor, NoSession, NoUrl, BadStamp, NullVisitor}

Acme == JObj([name |-> JStr("Acme")])

GatedPaths ==
    {"/api/events", "/api/analytics/summary", "/api/analytics/recent",
     "/api/analytics/errors", "/api/unknown"}

\* The service under load: well-formed requests of several tenants, the key
\* in the header or in the body.
Requests ==
    {Request("/api/register", "", Acme), Request("/health", "", NoBody)}
    \cup {Request("/api/events", k, b) :
            k \in KeySpace, b \in {ClickV1, ErrorBoom} \cup FailingPayloads}
    \cup {Request("/api/events", "", Merge(ErrorBare, "api_key", JStr(k))) : k \in KeySpace}
    \cup {Request(p, k, NoBody) : p \in GatedPaths \ {"/api/events"}, k \in KeySpace}

\* The gate and the validation: every way to send, or not to send, a key, a
\* name and the four required fields.  "sk_0" is a key no client holds.
OddBodies ==
    {None, JArr(0), JArr(1), EmptyObj, JObj([api_key |-> JStr("")]),
     JObj([api_key |-> JStr("sk_1")]), JObj([api_key |-> JStr("sk_2")])}
GateRequests ==
    {Request(p, "", NoBody) : p \in {"/", "/health", "/metrics"}}
    \cup {Request("/api/register", "", b) :
            b \in {Acme, JObj([name |-> JStr("")]), JObj([title |-> JStr("Acme")]), NoBody}
                  \cup OddBodies}
    \cup {Request(p, k, NoBody) : p \in GatedPaths, k \in {"", "sk_0"}}
    \cup {Request(p, k, NoBody) :
            p \in GatedPaths \ {"/api/analytics/summary"}, k \in KeySpace}
    \cup {Request(p, k, b) :
            p \in {"/api/events", "/api/analytics/recent"}, k \in {"", "sk_1"},
            b \in OddBodies}
    \cup {Request("/api/events", k, b) :
            k \in KeySpace,
            b \in {ClickV1, ErrorText, BadStamp}
                  \cup {Without(ClickV1, Required[i]) : i \in 1..Len(Required)}}

\* A tenant with a long history, and a second one.
BulkRequests ==
    {Request("/api/register", "", Acme), Request("/health", "", NoBody)}
    \cup {Request("/api/events", k, b) :
            k \in KeySpace,
            b \in {ErrorBare, ViewV2,
                   Merge(Payload("error", JIso(1, "Z"), "v2"), "error_info", ErrorInfo("old"))}}
    \cup {Request(p, k, NoBody) : p \in GatedPaths \ {"/api/events"}, k \in KeySpace}

(***************************************************************************)
(* The database the process finds when it starts: db.create_all() creates  *)
(* missing tables and keeps every row.                                     *)
(***************************************************************************)
EmptyDatabase == [clients |-> <<>>, events |-> <<>>]

\* One tenant, deactivated by the operator (no route sets is_active).
DeactivatedDatabase ==
    [clients |-> <<[Client(1, "sk_1", JStr("Old")) EXCEPT !.is_active = FALSE]>>,
     events |-> <<>>]

\* One tenant that has sent one error short of error_analytics' limit.
BulkDatabase ==
    [clients |-> <<Client(1, "sk_1", JStr("Acme"))>>,
     events |-> [i \in 1..(ErrorLimit - 1) |-> Event(i, 1, ErrorBoom)]]

InitWith(databases) ==
    /\ \E db \in databases : clients = db.clients /\ events = db.events
    /\ summary = Idle
    /\ resp = NoResponse

NextWith(requests) ==
    \/ \E req \in requests : Public(req)
    \/ \E req \in requests : Unrouted(req)
    \/ \E req \in requests : Register(req)
    \/ \E req \in requests : Track(req)
    \/ \E req \in requests : Recent(req)
    \/ \E req \in requests : Errors(req)
    \/ \E req \in requests : SummaryTotal(req)
    \/ SummaryByType
    \/ SummaryVisitors
    \/ SummaryRespond
    \/ Send

Init == InitWith({EmptyDatabase, DeactivatedDatabase})
Next == NextWith(Requests)
Spec == Init /\ [][Next]_vars

\* No summary request of GateRequests passes authenticate, so the later
\* statements of analytics_summary never run.
InitGate == InitWith({EmptyDatabase, DeactivatedDatabase})
NextGate ==
    \/ \E req \in GateRequests : Public(req)
    \/ \E req \in GateRequests : Unrouted(req)
    \/ \E req \in GateRequests : Register(req)
    \/ \E req \in GateRequests : Track(req)
    \/ \E req \in GateRequests : Recent(req)
    \/ \E req \in GateRequests : Errors(req)
    \/ \E req \in GateRequests : SummaryTotal(req)
    \/ Send
SpecGate == InitGate /\ [][NextGate]_vars

InitBulk == InitWith({BulkDatabase})
NextBulk == NextWith(BulkRequests)
SpecBulk == InitBulk /\ [][NextBulk]_vars

(***************************************************************************)
(* The properties.  They speak of a request and its response in the words  *)
(* of the specification, not through the handlers' operators.              *)
(***************************************************************************)
\* The key a request carries: the body field api_key, else the header.
BodyKey(req) ==
    IF IsDict(req.body) /\ "api_key" \in DOMAIN req.body.obj
       /\ "str" \in DOMAIN req.body.obj.api_key
    THEN req.body.obj.api_key.str ELSE ""
CarriedKey(req) == IF BodyKey(req) # "" THEN BodyKey(req) ELSE req.header

\* The active clients that hold key k.
ActiveWithKey(cl, k) == {i \in 1..Len(cl) : cl[i].api_key = k /\ cl[i].is_active}

\* This step answers a request: resp' is the answer.
Answers == resp = NoResponse /\ resp' # NoResponse

RECURSIVE SumOver(_, _)
SumOver(f, keys) ==
    IF keys = {} THEN 0
    ELSE LET k == CHOOSE x \in keys : TRUE IN f[k] + SumOver(f, keys \ {k})
SumValues(f) == SumOver(f, DOMAIN f)

CountOf(f, k) == IF k \in DOMAIN f THEN f[k] ELSE 0

\* C1: a request to a path outside the allow-list that carries no key is
\* answered 401 'Missing api_key', one whose key matches no active client is
\* answered 401 'Invalid API key'; in both cases the handler does not run and
\* the store is unchanged.
C1_GateRejects ==
    [][(Answers /\ resp'.req.path \notin AllowList) =>
        LET req == resp'.req
            key == CarriedKey(req)
        IN  /\ key = "" =>
                /\ resp'.status = 401
                /\ resp'.body = ErrorBody("Missing api_key")
                /\ UNCHANGED <<clients, events, summary>>
            /\ (key # "" /\ ActiveWithKey(clients, key) = {}) =>
                /\ resp'.status = 401
                /\ resp'.body = ErrorBody("Invalid API key")
                /\ UNCHANGED <<clients, events, summary>>]_vars

\* LacksRequired: what C2 speaks of, in the terms of the request and the table.
LacksRequired(body) ==
    \E i \in 1..Len(Required) : ~(IsDict(body) /\ Required[i] \in DOMAIN body.obj)

\* C2: an authenticated event submission whose JSON payload lacks one of the
\* four top-level fields is answered 400 and leaves the store as it was.
C2_MissingFieldIs400 ==
    [][(/\ Answers
        /\ resp'.req.path = "/api/events"
        /\ resp'.client # 0
        /\ resp'.req.body # NoBody
        /\ LacksRequired(resp'.req.body)) =>
        /\ resp'.status = 400
        /\ UNCHANGED <<clients, events>>]_vars

\* NestedBroken: what C3 speaks of, in the terms of the request and the table.
NestedBroken(body) ==
    LET has(outer, inner) ==
            /\ IsDict(body.obj[outer])
            /\ inner \in DOMAIN body.obj[outer].obj
    IN  \/ ~has("identifiers", "visitor_id")
        \/ ~has("identifiers", "session_id")
        \/ ~has("page_info", "url")
        \/ "iso" \notin DOMAIN body.obj.sent_at

\* C3: an ingestion whose payload has the four top-level fields but no
\* visitor_id, session_id or url, or a sent_at that does not parse, is
\* answered 500; and every ingestion answered 500 leaves the events table as
\* it was, so no reader sees a row of it.
C3_FailedIngestionLeavesNoRow ==
    [][(Answers /\ resp'.req.path = "/api/events" /\ resp'.client # 0) =>
        LET body == resp'.req.body
        IN  /\ (IsDict(body) /\ ~LacksRequired(body) /\ NestedBroken(body)) =>
                   resp'.status = 500
            /\ resp'.status = 500 =>
                /\ events' = events
                /\ CountEvents(events', resp'.client) = CountEvents(events, resp'.client)]_vars
C3_Witness ==
    /\ resp.req.path = "/api/events"
    /\ resp.status = 500
    /\ resp.req.body = NullVisitor
    /\ CountEvents(events, resp.client) > 0

\* C4: in every summary response total_events is the sum of the values of
\* by_type.
C4_TotalIsSumOfByType ==
    (resp.req.path = "/api/analytics/summary" /\ resp.status = 200) =>
        resp.body.total_events = SumValues(resp.body.by_type)

\* C5: a recent response holds at most 50 events, all of the authenticated
\* tenant: its events with the greatest sent_at, in descending sent_at order.
C5_RecentIsTenantsLatest ==
    (resp.req.path = "/api/analytics/recent" /\ resp.status = 200) =>
        LET list == resp.body.list
            tenants == ActiveWithKey(clients, CarriedKey(resp.req))
            own == {i \in 1..Len(events) : events[i].client_id \in tenants}
            got == {list[i].id : i \in 1..Len(list)}
        IN  /\ Len(list) <= 50
            /\ Cardinality(tenants) = 1
            /\ got \subseteq own
            /\ Cardinality(got) = Len(list)
            /\ Len(list) = Min(50, Cardinality(own))
            /\ \A i \in 1..Len(list) : list[i].time = JIso(events[list[i].id].sent_at, "")
            /\ \A i, j \in 1..Len(list) : i < j => list[i].time.iso >= list[j].time.iso
            /\ \A i \in own \ got : \A j \in got : events[i].sent_at <= events[j].sent_at
C5_Witness ==
    /\ resp.req.path = "/api/analytics/recent"
    /\ resp.status = 200
    /\ Len(resp.body.list) = 50
    /\ CountEvents(events, resp.client) > 50
    /\ \E i \in 1..Len(events) : events[i].client_id # resp.client
    /\ \E i, j \in 1..Len(resp.body.list) : resp.body.list[i].time # resp.body.list[j].time

\* C6: no two clients hold the same api_key; a registration answered 201
\* created an active client, and its key authenticates as that client on
\* the next request.
C6_KeysUniqueAndUsable ==
    /\ \A i, j \in 1..Len(clients) : i # j => clients[i].api_key # clients[j].api_key
    /\ (resp.req.path = "/api/register" /\ resp.status = 201) =>
        LET key == resp.body.api_key
            holders == {i \in 1..Len(clients) : clients[i].api_key = key}
        IN  /\ holders = {Len(clients)}
            /\ clients[Len(clients)].is_active
            /\ \A p \in GatedPaths :
                  LET auth == Authenticate(clients, Request(p, key, NoBody))
                  IN  auth.passed /\ auth.client = clients[Len(clients)]
C6_Witness ==
    /\ resp.req.path = "/api/register"
    /\ resp.status = 201
    /\ Len(clients) = 2
    /\ clients[1].is_active

\* NameAbsentOrEmpty: what C7 speaks of, in the terms of the request and the table.
NameAbsentOrEmpty(body) ==
    \/ ~IsDict(body)
    \/ "name" \notin DOMAIN body.obj
    \/ body.obj.name = JStr("")

\* C7: register with a JSON body whose name is absent or empty is answered
\* 400, persists no client and returns no api_key.
C7_RegisterNeedsName ==
    [][(/\ Answers
        /\ resp'.req.path = "/api/register"
        /\ resp'.req.body # NoBody
        /\ NameAbsentOrEmpty(resp'.req.body)) =>
        /\ resp'.status = 400
        /\ "api_key" \notin DOMAIN resp'.body
        /\ clients' = clients]_vars

\* C8: an ingestion answered 201 adds exactly one row, of the authenticated
\* tenant, whose raw_data is the payload; the tenant's total_events and
\* by_type[event_type] are then one greater, and after a first event they
\* are 1, {event_type: 1}, with unique_visitors 1.
C8_IngestionAddsOneRow ==
    [][(Answers /\ resp'.req.path = "/api/events" /\ resp'.status = 201) =>
        LET req == resp'.req
            type == req.body.obj.event_type.str
            row == events'[Len(events')]
            c == row.client_id
        IN  /\ Len(events') = Len(events) + 1
            /\ SubSeq(events', 1, Len(events)) = events
            /\ ActiveWithKey(clients, CarriedKey(req)) = {c}
            /\ row.raw_data = req.body
            /\ row.id = resp'.body.event_id
            /\ CountEvents(events', c) = CountEvents(events, c) + 1
            /\ CountByType(events', c)[type] = CountOf(CountByType(events, c), type) + 1
            /\ \A t \in DOMAIN CountByType(events, c) \ {type} :
                  CountByType(events', c)[t] = CountByType(events, c)[t]
            /\ CountEvents(events, c) = 0 =>
                /\ CountEvents(events', c) = 1
                /\ CountByType(events', c) = [t \in {type} |-> 1]
                /\ CountVisitors(events', c) = 1]_vars
C8_Witness ==
    /\ resp.req.path = "/api/events"
    /\ resp.status = 201
    /\ resp.req.body = ErrorBoom
    /\ CountEvents(events, resp.client) = 2

\* MessageOrUnknown, ErrorReportIsRight: what C9 speaks of, in the terms of the request and the table.
MessageOrUnknown(e) ==
    LET raw == e.raw_data.obj
    IN  IF /\ "error_info" \in DOMAIN raw
           /\ IsDict(raw.error_info)
           /\ "message" \in DOMAIN raw.error_info.obj
        THEN raw.error_info.obj.message.str
        ELSE "Unknown"
ErrorReportIsRight(r) ==
    LET own == {i \in 1..Len(events) :
                    events[i].client_id = r.client /\ events[i].event_type = JStr("error")}
        n == Min(100, Cardinality(own))
        set == {r.rows[i] : i \in 1..Len(r.rows)}
        freq == r.body.error_frequency
        shown == r.body.recent_errors
    IN  /\ r.body.total_errors = n
        /\ Len(r.rows) = n /\ Cardinality(set) = n /\ set \subseteq own
        /\ \A i, j \in 1..n : i < j => events[r.rows[i]].sent_at >= events[r.rows[j]].sent_at
        /\ \A i \in own \ set : \A j \in set : events[i].sent_at <= events[j].sent_at
        /\ DOMAIN freq = {MessageOrUnknown(events[i]) : i \in set}
        /\ \A m \in DOMAIN freq :
              freq[m] = Cardinality({i \in set : MessageOrUnknown(events[i]) = m})
        /\ SumValues(freq) = n
        /\ Len(shown) = Min(10, n)
        /\ \A i \in 1..Len(shown) :
              /\ shown[i].time = JIso(events[r.rows[i]].sent_at, "")
              /\ shown[i].page = events[r.rows[i]].page_url
        /\ n = 0 => (shown = <<>> /\ DOMAIN freq = {})

\* C9: error_analytics reports on the tenant's at most 100 latest error
\* events: total_errors is their number, error_frequency counts each of them
\* under its error_info.message or "Unknown", recent_errors lists the first
\* 10; a tenant without error events gets 0, [], {}.
C9_ErrorReport ==
    (resp.req.path = "/api/analytics/errors" /\ resp.client # 0) =>
        (resp.status = 200 /\ ErrorReportIsRight(resp))

\* AnalyticsPaths, SameAnswers: what C10 speaks of, in the terms of the request and the table.
AnalyticsPaths ==
    {"/api/analytics/summary", "/api/analytics/recent", "/api/analytics/errors"}
SameAnswers(before, after, client) ==
    LET req == Request("/api/analytics/recent", client.api_key, NoBody)
    IN  /\ CountEvents(after, client.id) = CountEvents(before, client.id)
        /\ CountByType(after, client.id) = CountByType(before, client.id)
        /\ CountVisitors(after, client.id) = CountVisitors(before, client.id)
        /\ FirstSentAt(after, client.id) = FirstSentAt(before, client.id)
        /\ \A tie \in TieOrders :
              /\ RecentEvents(after, req, client, tie) = RecentEvents(before, req, client, tie)
              /\ ErrorAnalytics(after, req, client, tie) = ErrorAnalytics(before, req, client, tie)

\* C10: rows of events are never changed or removed; the analytics
\* operations leave the store as it was; an ingestion by one tenant changes
\* neither the rows of another tenant nor what any analytics query returns
\* for it.
C10_AppendOnlyAndScoped ==
    [][/\ Len(events') >= Len(events)
       /\ SubSeq(events', 1, Len(events)) = events
       /\ (summary' # summary \/ (Answers /\ resp'.req.path \in AnalyticsPaths)) =>
              UNCHANGED <<clients, events>>
       /\ events' # events =>
              \A b \in 1..Len(clients) :
                  b # events'[Len(events')].client_id =>
                      /\ \A i \in 1..Len(events') :
                            events'[i].client_id = b => (i <= Len(events) /\ events[i] = events'[i])
                      /\ SameAnswers(events, events', clients[b])]_vars
C10_Witness ==
    /\ resp.req.path = "/api/events"
    /\ resp.status = 201
    /\ \E i \in 1..Len(events) :
          /\ events[i].client_id # resp.client
          /\ events[i].event_type = JStr("error")

====
